---- MODULE Spec2Model ----
(***************************************************************************)
(* A model of the domain name parser of lynxsecurity/domain (domain.go).   *)
(*                                                                         *)
(* A Go string is modelled as a sequence of one-character strings, so that *)
(* strings.ToLower, strings.Split, strings.Join, slicing and the substring *)
(* tests are computed the way the library computes them.  All characters   *)
(* of the model are ASCII, so a byte index is a character index.           *)
(*                                                                         *)
(* Two specifications:                                                     *)
(*   Spec     one Parse or Levels call on a constructed Domain, for every  *)
(*            input string and suffix set of the bounds;                   *)
(*   SpecNew  calls of New on one cache path, with the goroutines that use *)
(*            the Domains New returned (tldMap and its RWMutex).           *)
(***************************************************************************)
EXTENDS Integers, Sequences, FiniteSets

VARIABLES
    \* ---- Spec: a Parse / Levels call ----
    tlds,       \* d.tlds.m: the suffix set of the Domain
    domain,     \* the argument of the call
    pc,         \* "ready" | "parsed" | "levels"
    rec,        \* the *Record Parse returned: <<>> is nil, <<r>> points to r
    err,        \* the error Parse returned ("nil" or its kind)
    queried,    \* the arguments of the d.tlds.exists calls of the call, in order
    levels,     \* the []string Levels returned
    \* ---- SpecNew: New, the cache file, the goroutines ----
    file,       \* the cache file: <<>> is absent, <<lines>> holds its lines
    absent0,    \* whether the cache file was absent before the first New
    maps,       \* the tldMaps made so far, one per New call that reached line 82
    npc,        \* the position of the goroutine that calls New
    call,       \* the locals and the results of the current (or last) New call
    calls,      \* the number of New calls begun
    failed,     \* the number of New calls whose fetch failed
    rpc         \* the goroutines that use a Domain: position and tldMap

parseVars == <<tlds, domain, pc, rec, err, queried, levels>>
newVars == <<file, absent0, maps, npc, call, calls, failed, rpc>>
vars == <<tlds, domain, pc, rec, err, queried, levels,
          file, absent0, maps, npc, call, calls, failed, rpc>>

----------------------------------------------------------------------------
(* Bounds of the model *)

\* The longest input string.
MaxLen == 6

\* The characters of the inputs: two letters, an upper-case letter, the
\* separator and a character of the validator's blocklist.
Alphabet == {"a", "b", "A", ".", "@"}

\* Every input string of at most MaxLen characters.
Inputs == UNION {[1..n -> Alphabet] : n \in 0..MaxLen}

\* The suffixes a suffix set is drawn from.  No set is assumed to hold the
\* shorter suffixes of its members.  Cache lines are never empty (domain.go
\* line 169 writes no empty line), so no suffix is the empty string.
SuffixUniverse ==
    { <<"a">>, <<"b">>, <<"b", ".", "a">>, <<"a", ".", "b", ".", "a">> }

SuffixSets == SUBSET SuffixUniverse

----------------------------------------------------------------------------
(* The package strings *)

\* unicode.ToLower on the characters of the model
LowerRune(c) == IF c = "A" THEN "a" ELSE c

\* strings.ToLower
ToLower(s) == [i \in 1..Len(s) |-> LowerRune(s[i])]

\* strings.ContainsRune
ContainsRune(s, c) == \E i \in 1..Len(s) : s[i] = c

\* strings.Contains
Contains(s, sub) ==
    \E i \in 1..(Len(s) - Len(sub) + 1) : SubSeq(s, i, i + Len(sub) - 1) = sub

\* strings.HasPrefix
HasPrefix(s, p) == Len(s) >= Len(p) /\ SubSeq(s, 1, Len(p)) = p

\* strings.Split(s, "."): the pieces between the separators, the empty ones
\* kept; a string with no separator is its own single piece.
RECURSIVE Split(_)
Split(s) ==
    IF ~ContainsRune(s, ".") THEN <<s>>
    ELSE LET i == CHOOSE k \in 1..Len(s) :
                      s[k] = "." /\ \A j \in 1..(k - 1) : s[j] # "."
         IN  <<SubSeq(s, 1, i - 1)>> \o Split(SubSeq(s, i + 1, Len(s)))

\* strings.Join(parts, ".")
RECURSIVE Join(_)
Join(parts) ==
    IF Len(parts) = 0 THEN <<>>
    ELSE IF Len(parts) = 1 THEN parts[1]
    ELSE parts[1] \o <<".">> \o Join(Tail(parts))

----------------------------------------------------------------------------
(* validator *)

badchars ==
    <<" ", "}", "{", "'", "\\", "/", "\"", ";", ":", "@", "!", "#", "$", "%",
      "^", "&", "(", ")">>

\* A faulty validator: the separator test made before the blocklist.
validatorSeparatorFirst(d) ==
    IF ~ContainsRune(d, ".") THEN "MissingSeparator"
    ELSE IF \E i \in 1..Len(badchars) : ContainsRune(d, badchars[i])
    THEN "InvalidCharacter"
    ELSE IF Contains(d, <<".", ".">>) THEN "ConsecutiveSeparators"
    ELSE "nil"

\* The error validator returns, by its kind; "nil" is no error.
validator(d) ==
    IF \E i \in 1..Len(badchars) : ContainsRune(d, badchars[i])
    THEN "InvalidCharacter"
    ELSE IF ~ContainsRune(d, ".") THEN "MissingSeparator"
    ELSE IF Contains(d, <<".", ".">>) THEN "ConsecutiveSeparators"
    ELSE "nil"

----------------------------------------------------------------------------
(* tldMap.exists, once the map is built and shared *)

exists(m, tld) == tld \in m

----------------------------------------------------------------------------
(* Domain.Parse *)

\* var rec Record; var tld string
SweepInit ==
    [tld |-> <<>>,
     rec |-> [Subdomain |-> <<>>, Name |-> <<>>, TLD |-> <<>>],
     queried |-> <<>>]

\* One turn of the loop of Parse, on the label c.
SweepStep(st, c, m) ==
    LET tld == IF st.tld = <<>> THEN c ELSE c \o <<".">> \o st.tld
        r == st.rec
        r2 == IF exists(m, tld) THEN [r EXCEPT !.TLD = tld]
              ELSE IF r.Name = <<>> THEN [r EXCEPT !.Name = c]
              ELSE IF r.Subdomain = <<>> THEN [r EXCEPT !.Subdomain = c]
              ELSE [r EXCEPT !.Subdomain = c \o <<".">> \o r.Subdomain]
    IN  [tld |-> tld, rec |-> r2, queried |-> Append(st.queried, tld)]

\* for i := cl - 1; i >= 0; i-- : the state after the labels i..cl of chunks
\* (counted from 1) have been visited.
RECURSIVE Sweep(_, _, _)
Sweep(chunks, i, m) ==
    IF i > Len(chunks) THEN SweepInit
    ELSE SweepStep(Sweep(chunks, i + 1, m), chunks[i], m)

\* A faulty ParseReturn: the test of rec.Name left out.
ParseReturnNoNameCheck(st) ==
    IF st.rec.TLD = <<>>
    THEN [rec |-> <<>>, err |-> "UnknownSuffix", queried |-> st.queried]
    ELSE [rec |-> <<st.rec>>, err |-> "nil", queried |-> st.queried]

\* The two tests after the loop, and the return.
ParseReturn(st) ==
    IF st.rec.TLD = <<>>
    THEN [rec |-> <<>>, err |-> "UnknownSuffix", queried |-> st.queried]
    ELSE IF st.rec.Name = <<>>
    THEN [rec |-> <<>>, err |-> "MissingName", queried |-> st.queried]
    ELSE [rec |-> <<st.rec>>, err |-> "nil", queried |-> st.queried]

\* Parse: the record (a pointer), the error, and the exists calls made.
Parse(d0, m) ==
    LET d == ToLower(d0)
        e == validator(d)
    IN  IF e # "nil" THEN [rec |-> <<>>, err |-> e, queried |-> <<>>]
        ELSE ParseReturn(Sweep(Split(d), 1, m))

----------------------------------------------------------------------------
(* Domain.Levels *)

\* The loop of Levels, with the record h of a Parse that succeeded.
LevelsOf(d, h) ==
    LET t == Len(d) - Len(h.TLD)
        all == Split(SubSeq(d, 1, t))
    IN  [i \in 1..(Len(all) - 1) |-> Join(SubSeq(all, i, Len(all))) \o h.TLD]

\* A faulty Levels: the error of Parse not tested, the loop run with the
\* zero Record.
LevelsNoErrCheck(d0, m) ==
    LET d == ToLower(d0)
        p == Parse(d, m)
    IN  IF p.err # "nil" THEN LevelsOf(d, SweepInit.rec)
        ELSE LevelsOf(d, p.rec[1])

Levels(d0, m) ==
    LET d == ToLower(d0)
        p == Parse(d, m)
    IN  IF p.err # "nil" THEN <<>>
        ELSE LevelsOf(d, p.rec[1])

----------------------------------------------------------------------------
(* Spec: one call on a constructed Domain *)

\* No New call is modelled: the Domain is there, built from tlds.
NewIdle ==
    /\ file = <<>>
    /\ absent0 = TRUE
    /\ maps = <<>>
    /\ npc = "idle"
    /\ call = <<>>
    /\ calls = 0
    /\ failed = 0
    /\ rpc = <<>>

Init ==
    /\ tlds \in SuffixSets
    /\ domain \in Inputs
    /\ pc = "ready"
    /\ rec = <<>>
    /\ err = "nil"
    /\ queried = <<>>
    /\ levels = <<>>
    /\ NewIdle

\* record, err := d.Parse(domain)
DoParse ==
    /\ pc = "ready"
    /\ LET p == Parse(domain, tlds)
       IN  /\ rec' = p.rec
           /\ err' = p.err
           /\ queried' = p.queried
    /\ pc' = "parsed"
    /\ UNCHANGED <<tlds, domain, levels>>
    /\ UNCHANGED newVars

\* levels := d.Levels(domain): a slice and nothing else comes back.
DoLevels ==
    /\ pc = "ready"
    /\ levels' = Levels(domain, tlds)
    /\ queried' = Parse(ToLower(domain), tlds).queried
    /\ pc' = "levels"
    /\ UNCHANGED <<tlds, domain, rec, err>>
    /\ UNCHANGED newVars

Next == DoParse \/ DoLevels

Spec == Init /\ [][Next]_vars

----------------------------------------------------------------------------
(* SpecNew: New, newCache, cacheExists, tldMap *)

\* The most New calls of a behaviour.
MaxNewCalls == 2

\* The goroutines that call exists on the Domains New returned.
Readers == {"r1", "r2"}

\* The body of the answer of publicsuffix.org, line by line: a comment, an
\* empty line and two suffixes.
RemoteList ==
    << <<"/", "/", " ", "c">>, <<>>, <<"a">>, <<"b", ".", "a">> >>

\* line != "" && !strings.HasPrefix(line, "/")
KeepLine(line) == line # <<>> /\ ~HasPrefix(line, <<"/">>)

\* The lines of a complete cache of RemoteList.
FullCache == SelectSeq(RemoteList, KeepLine)

\* The set of the strings of a sequence.
Range(q) == {q[i] : i \in 1..Len(q)}

\* os.OpenFile(cacheFile, os.O_CREATE, 0644): the flags of newCache.  O_RDONLY
\* is 0, so a file opened with O_CREATE alone is open for reading only.
newCacheFlags == {"O_CREATE"}

\* (*os.File).WriteString on a file of content, opened with flags: the write
\* of a descriptor not open for writing fails (EBADF) and changes nothing;
\* newCache drops the error.
WriteString(content, flags, line) ==
    IF flags \cap {"O_WRONLY", "O_RDWR"} # {} THEN Append(content, line)
    ELSE content

\* tlds := &tldMap{m: make(map[string]struct{})}; shared says that New has
\* returned the Domain that holds the map, w and r are the RWMutex: the
\* writer that holds it, the readers that hold it.
NewTldMap == [m |-> {}, w |-> FALSE, r |-> {}, shared |-> FALSE]

\* A faulty CanRLock: a sync.Mutex in place of the sync.RWMutex.
CanRLockExclusive(mp) == ~mp.w /\ mp.r = {}

\* t.RLock() returns: no writer holds the lock.  (sync.RWMutex also holds a
\* reader back while a writer waits; a map has one writer, New, which is done
\* with it before a reader can reach it.)
CanRLock(mp) == ~mp.w

\* t.Lock() returns: no writer and no reader holds the lock.
CanLock(mp) == ~mp.w /\ mp.r = {}

\* The locals of a New call that has just begun.
CallInit ==
    [fetchFailed |-> FALSE, body |-> <<>>, lines |-> <<>>, k |-> 0,
     err |-> "nil", dom |-> 0]

\* The parser variables of SpecNew, which makes no Parse call.
ParseIdle ==
    /\ tlds = {}
    /\ domain = <<>>
    /\ pc = "off"
    /\ rec = <<>>
    /\ err = "nil"
    /\ queried = <<>>
    /\ levels = <<>>

InitNew ==
    /\ ParseIdle
    /\ file \in {<<>>, <<FullCache>>}
    /\ absent0 = (file = <<>>)
    /\ maps = <<>>
    /\ npc = "idle"
    /\ call = CallInit
    /\ calls = 0
    /\ failed = 0
    /\ rpc = [t \in Readers |-> [pc |-> "idle", k |-> 0]]

\* New returns (nil, err).
ReturnErr(c, e) == [c EXCEPT !.err = e, !.dom = 0]

\* New(cacheFile) is called; if !cacheExists(cacheFile).
NewStart ==
    /\ npc = "idle"
    /\ calls < MaxNewCalls
    /\ calls' = calls + 1
    /\ call' = CallInit
    /\ npc' = IF file = <<>> THEN "create" ELSE "open"
    /\ UNCHANGED <<file, absent0, maps, failed, rpc>>
    /\ UNCHANGED parseVars

\* newCache: os.OpenFile creates the file, empty, when it is not there.
NewCreate ==
    /\ npc = "create"
    /\ file' = IF file = <<>> THEN << <<>> >> ELSE file
    /\ npc' = "fetch"
    /\ UNCHANGED <<absent0, maps, call, calls, failed, rpc>>
    /\ UNCHANGED parseVars

\* newCache: os.OpenFile fails (no such directory, no permission).
NewCreateFail ==
    /\ npc = "create"
    /\ call' = ReturnErr(call, "CouldNotCreate")
    /\ npc' = "idle"
    /\ UNCHANGED <<file, absent0, maps, calls, failed, rpc>>
    /\ UNCHANGED parseVars

\* newCache: client.Get answers.
NewFetch ==
    /\ npc = "fetch"
    /\ call' = [call EXCEPT !.body = RemoteList]
    /\ npc' = "copy"
    /\ UNCHANGED <<file, absent0, maps, calls, failed, rpc>>
    /\ UNCHANGED parseVars

\* newCache: client.Get fails; the file OpenFile created stays.
NewFetchFail ==
    /\ npc = "fetch"
    /\ call' = ReturnErr([call EXCEPT !.fetchFailed = TRUE], "CouldNotDownload")
    /\ failed' = failed + 1
    /\ npc' = "idle"
    /\ UNCHANGED <<file, absent0, maps, calls, rpc>>
    /\ UNCHANGED parseVars

\* newCache: one turn of the loop over the lines of the body.
NewCopyLine ==
    /\ npc = "copy"
    /\ call.body # <<>>
    /\ LET line == Head(call.body)
       IN  file' = IF KeepLine(line)
                   THEN <<WriteString(file[1], newCacheFlags, line)>>
                   ELSE file
    /\ call' = [call EXCEPT !.body = Tail(call.body)]
    /\ UNCHANGED <<absent0, maps, npc, calls, failed, rpc>>
    /\ UNCHANGED parseVars

\* newCache: scan.Scan() returns false, at the end of the body or on a read
\* error (scan.Err() is not looked at); newCache returns nil.
NewCopyEnd ==
    /\ npc = "copy"
    /\ call' = [call EXCEPT !.body = <<>>]
    /\ npc' = "open"
    /\ UNCHANGED <<file, absent0, maps, calls, failed, rpc>>
    /\ UNCHANGED parseVars

\* os.Open(cacheFile) succeeds; the map is made; the scanner is on the lines.
NewOpen ==
    /\ npc = "open"
    /\ file # <<>>
    /\ maps' = Append(maps, NewTldMap)
    /\ call' = [call EXCEPT !.lines = file[1], !.k = Len(maps) + 1]
    /\ npc' = "scan"
    /\ UNCHANGED <<file, absent0, calls, failed, rpc>>
    /\ UNCHANGED parseVars

\* os.Open(cacheFile) fails.
NewOpenFail ==
    /\ npc = "open"
    /\ call' = ReturnErr(call, "CouldNotOpen")
    /\ npc' = "idle"
    /\ UNCHANGED <<file, absent0, maps, calls, failed, rpc>>
    /\ UNCHANGED parseVars

\* tlds.add(b.Text()): t.Lock()
AddLock ==
    /\ npc = "scan"
    /\ call.lines # <<>>
    /\ CanLock(maps[call.k])
    /\ maps' = [maps EXCEPT ![call.k].w = TRUE]
    /\ npc' = "addLocked"
    /\ UNCHANGED <<file, absent0, call, calls, failed, rpc>>
    /\ UNCHANGED parseVars

\* tlds.add(b.Text()): t.m[tld] = struct{}{}
AddStore ==
    /\ npc = "addLocked"
    /\ maps' = [maps EXCEPT ![call.k].m = @ \cup {Head(call.lines)}]
    /\ npc' = "addStored"
    /\ UNCHANGED <<file, absent0, call, calls, failed, rpc>>
    /\ UNCHANGED parseVars

\* tlds.add(b.Text()): the deferred t.Unlock(); the scanner moves on.
AddUnlock ==
    /\ npc = "addStored"
    /\ maps' = [maps EXCEPT ![call.k].w = FALSE]
    /\ call' = [call EXCEPT !.lines = Tail(call.lines)]
    /\ npc' = "scan"
    /\ UNCHANGED <<file, absent0, calls, failed, rpc>>
    /\ UNCHANGED parseVars

\* b.Scan() returns false; return d, nil: the callers hold the Domain.
NewReturn ==
    /\ npc = "scan"
    /\ call.lines = <<>>
    /\ maps' = [maps EXCEPT ![call.k].shared = TRUE]
    /\ call' = [call EXCEPT !.dom = call.k]
    /\ npc' = "idle"
    /\ UNCHANGED <<file, absent0, calls, failed, rpc>>
    /\ UNCHANGED parseVars

\* exists, called by goroutine t on the map of a Domain it holds: t.RLock()
ExistsRLock(t, k) ==
    /\ rpc[t].pc = "idle"
    /\ k \in 1..Len(maps)
    /\ maps[k].shared
    /\ CanRLock(maps[k])
    /\ maps' = [maps EXCEPT ![k].r = @ \cup {t}]
    /\ rpc' = [rpc EXCEPT ![t] = [pc |-> "rlocked", k |-> k]]
    /\ UNCHANGED <<file, absent0, npc, call, calls, failed>>
    /\ UNCHANGED parseVars

\* exists: _, ok := t.m[tld]
ExistsRead(t) ==
    /\ rpc[t].pc = "rlocked"
    /\ rpc' = [rpc EXCEPT ![t].pc = "read"]
    /\ UNCHANGED <<file, absent0, maps, npc, call, calls, failed>>
    /\ UNCHANGED parseVars

\* exists: the deferred t.RUnlock(); return ok
ExistsRUnlock(t) ==
    /\ rpc[t].pc = "read"
    /\ maps' = [maps EXCEPT ![rpc[t].k].r = @ \ {t}]
    /\ rpc' = [rpc EXCEPT ![t] = [pc |-> "idle", k |-> 0]]
    /\ UNCHANGED <<file, absent0, npc, call, calls, failed>>
    /\ UNCHANGED parseVars

NextNew ==
    \/ NewStart
    \/ NewCreate
    \/ NewCreateFail
    \/ NewFetch
    \/ NewFetchFail
    \/ NewCopyLine
    \/ NewCopyEnd
    \/ NewOpen
    \/ NewOpenFail
    \/ AddLock
    \/ AddStore
    \/ AddUnlock
    \/ NewReturn
    \/ \E t \in Readers : \E k \in 1..MaxNewCalls : ExistsRLock(t, k)
    \/ \E t \in Readers : ExistsRead(t)
    \/ \E t \in Readers : ExistsRUnlock(t)

SpecNew == InitNew /\ [][NextNew]_vars

----------------------------------------------------------------------------
(* What the claims speak of *)

\* The labels of the lower-cased input, left to right.
Labels(d) == Split(ToLower(d))

\* The label-aligned suffixes of the lower-cased input: the joins of its last
\* k labels, k >= 1.
AlignedSuffixes(d) ==
    LET l == Labels(d)
    IN  {Join(SubSeq(l, k, Len(l))) : k \in 1..Len(l)}

\* The non-empty strings of parts joined with ".".
JoinNonEmpty(parts) == Join(SelectSeq(parts, LAMBDA p : p # <<>>))

\* The blocklist of the validator, as a set.
Blocklist ==
    {" ", "{", "}", "'", "\\", "/", "\"", ";", ":", "@", "!", "#", "$", "%",
     "^", "&", "(", ")"}

\* The verdict the validator is to give on a lower-cased string.
Verdict(s) ==
    IF \E i \in 1..Len(s) : s[i] \in Blocklist THEN "InvalidCharacter"
    ELSE IF \A i \in 1..Len(s) : s[i] # "." THEN "MissingSeparator"
    ELSE IF \E i \in 1..(Len(s) - 1) : s[i] = "." /\ s[i + 1] = "."
    THEN "ConsecutiveSeparators"
    ELSE "nil"

\* C1: when Parse succeeds, its Subdomain, Name and TLD, the empty ones left
\* out, joined with "." in that order, are the lower-cased input.
C1_Reconstruction ==
    (pc = "parsed" /\ err = "nil") =>
        JoinNonEmpty(<<rec[1].Subdomain, rec[1].Name, rec[1].TLD>>)
            = ToLower(domain)

\* C2: on an input the validator accepts, the TLD of a successful Parse is the
\* longest member of the suffix set that is a label-aligned suffix of the
\* lower-cased input, and Parse fails with UnknownSuffix when no label-aligned
\* suffix is a member.
C2_LongestSuffix ==
    (pc = "parsed" /\ validator(ToLower(domain)) = "nil") =>
        LET known == AlignedSuffixes(domain) \cap tlds
        IN  IF known = {} THEN err = "UnknownSuffix"
            ELSE err = "nil" =>
                    /\ rec[1].TLD \in known
                    /\ \A s \in known : Len(s) <= Len(rec[1].TLD)

\* C3: when Parse succeeds, Name is the label just left of the labels of TLD
\* and Subdomain is the join of the labels left of Name, in their order.
C3_NameAndSubdomain ==
    (pc = "parsed" /\ err = "nil") =>
        LET l == Labels(domain)
            n == Len(l)
            m == Len(Split(rec[1].TLD))
        IN  /\ n > m
            /\ rec[1].Name = l[n - m]
            /\ rec[1].Subdomain = Join(SubSeq(l, 1, n - m - 1))

\* C4: the validator gives InvalidCharacter on a blocklisted character, else
\* MissingSeparator when there is no ".", else ConsecutiveSeparators on "..",
\* else no error; and when it rejects the lower-cased input, Parse returns that
\* error and no record, and has made no exists call.
C4_Validation ==
    pc = "parsed" =>
        LET v == Verdict(ToLower(domain))
        IN  /\ validator(ToLower(domain)) = v
            /\ v # "nil" => (err = v /\ rec = <<>> /\ queried = <<>>)

\* C4's case: an input with a blocklisted character and no separator, which
\* Parse rejected.
C4_Witness ==
    /\ pc = "parsed"
    /\ err = "InvalidCharacter"
    /\ ~ContainsRune(domain, ".")
    /\ rec = <<>>

\* C5: when Parse succeeds on an input of n labels with a TLD of m labels,
\* Levels returns n - m strings, the i-th the join of the labels from the i-th
\* on: the first is the lower-cased input, the last is Name.TLD.
C5_LevelsOrder ==
    (pc = "levels" /\ Parse(domain, tlds).err = "nil") =>
        LET h == Parse(domain, tlds).rec[1]
            l == Labels(domain)
            n == Len(l)
            m == Len(Split(h.TLD))
        IN  /\ Len(levels) = n - m
            /\ \A i \in 1..Len(levels) : levels[i] = Join(SubSeq(l, i, n))
            /\ Len(levels) > 0 =>
                  /\ levels[1] = ToLower(domain)
                  /\ levels[Len(levels)] = h.Name \o <<".">> \o h.TLD

\* C6: when Parse fails on the input, Levels returns the empty sequence and
\* no error reaches the caller.
C6_LevelsSwallowsError ==
    (pc = "levels" /\ Parse(domain, tlds).err # "nil") =>
        (levels = <<>> /\ err = "nil")

\* C6's case: Levels called on an input of several labels whose Parse fails
\* after validation.
C6_Witness ==
    /\ pc = "levels"
    /\ Parse(domain, tlds).err = "UnknownSuffix"
    /\ Len(Labels(domain)) >= 2
    /\ levels = <<>>

\* C7: Parse ends with a record and no error, the record's Name and TLD not
\* empty and its TLD in the suffix set, or with an error and no record; past
\* validation the error is UnknownSuffix when no candidate of the sweep was in
\* the set, and otherwise MissingName when no label was taken as Name.
C7_AllOrNothing ==
    pc = "parsed" =>
        /\ \/ /\ err = "nil"
              /\ rec # <<>>
              /\ rec[1].Name # <<>>
              /\ rec[1].TLD # <<>>
              /\ rec[1].TLD \in tlds
           \/ /\ err # "nil"
              /\ rec = <<>>
        /\ validator(ToLower(domain)) = "nil" =>
              LET l == Labels(domain)
                  n == Len(l)
                  matched == \E i \in 1..Len(queried) : queried[i] \in tlds
                  named == \E i \in 1..Len(queried) :
                               queried[i] \notin tlds /\ l[n - i + 1] # <<>>
              IN  /\ Len(queried) = n
                  /\ ~matched => err = "UnknownSuffix"
                  /\ (matched /\ ~named) => err = "MissingName"
                  /\ (matched /\ named) => err = "nil"

\* C7's case: a candidate of the sweep was in the set and no label was left
\* for Name.
C7_Witness ==
    /\ pc = "parsed"
    /\ err = "MissingName"
    /\ rec = <<>>
    /\ \E i \in 1..Len(queried) : queried[i] \in tlds

\* C10: when Parse succeeds on the input, every string Levels returns parses,
\* with the Name and the TLD of the input.
C10_LevelsSameDomain ==
    (pc = "levels" /\ Parse(domain, tlds).err = "nil") =>
        LET h == Parse(domain, tlds).rec[1]
        IN  \A i \in 1..Len(levels) :
                LET q == Parse(levels[i], tlds)
                IN  /\ q.err = "nil"
                    /\ q.rec[1].Name = h.Name
                    /\ q.rec[1].TLD = h.TLD

\* C8: with the cache file absent before the first New, a New call whose fetch
\* fails returns an error and no Domain, and a New call that succeeds after a
\* call whose fetch failed has loaded the whole suffix list, not an empty or a
\* partial one.
C8_FailedNewLeavesNoCache ==
    (absent0 /\ npc = "idle" /\ calls > 0) =>
        /\ call.fetchFailed => (call.err # "nil" /\ call.dom = 0)
        /\ (call.err = "nil" /\ failed > 0) =>
              (call.dom # 0 /\ maps[call.dom].m = Range(FullCache))

\* C9: a goroutine is in exists on a map only once New has returned the Domain
\* of the map, and then New makes no add on it; no goroutine is in exists on a
\* map whose write lock is held; and while a goroutine holds the read lock of
\* a map, the RLock of any other goroutine on that map can return.
C9_LoadThenSharedReads ==
    \A k \in 1..Len(maps) :
        /\ (\E t \in Readers : rpc[t].pc # "idle" /\ rpc[t].k = k) =>
              maps[k].shared
        /\ maps[k].shared =>
              ~(call.k = k /\ npc \in {"scan", "addLocked", "addStored"})
        /\ maps[k].w => \A t \in Readers : ~(rpc[t].pc # "idle" /\ rpc[t].k = k)
        /\ \A t \in Readers : (rpc[t].pc # "idle" /\ rpc[t].k = k) => t \in maps[k].r
        /\ \A t1 \in Readers, t2 \in Readers :
              (t1 \in maps[k].r /\ rpc[t2].pc = "idle") => ENABLED ExistsRLock(t2, k)

\* C9's case: two goroutines hold the read lock of a map that New loaded with
\* add calls.
C9_Witness ==
    \E k \in 1..Len(maps) :
        /\ maps[k].m # {}
        /\ Cardinality(maps[k].r) >= 2
        /\ \A t \in maps[k].r : rpc[t].pc = "rlocked"

====
